---- MODULE Spec2Model ----
(***************************************************************************)
(* A model of MineSweeperBoard (src/minesweeper.py): the grid of cells,    *)
(* its counters, and the operations action / flag / reveal / open_mines.   *)
(* A board is a record with the fields of the Python object; the board     *)
(* operations are operators from boards to boards, translated statement by *)
(* statement, and the state machine calls them with arbitrary arguments.   *)
(* Further specifications take one call of action statement by statement   *)
(* (CascadeSpec), run the event loop of MineSweeperGame                    *)
(* (src/pygame_sweeper.py, GameSpec) and call from_custom (CustomSpec).    *)
(***************************************************************************)
EXTENDS Integers, Sequences, FiniteSets

\* ---------------------------------------------------------------- bounds
\* the boards have at most MaxCells cells (cols * lines), MaxMines mines
MaxCells == 6
MaxMines == 2
\* the number of calls made on one board
MaxCalls == 2

\* ------------------------------------------------------- cell state bits
_SAFE == 0
_MINE == 1
_FLAGGED == 2
_OPEN == 4
_OPEN_MINE == 5

\* Python's None, as the value of last_clicked
None == -1

\* s & bit, s | bit, s ^ bit for a single-bit mask (1, 2 or 4)
BitAnd(s, bit) == ((s \div bit) % 2) * bit
BitOr(s, bit) == s + bit - BitAnd(s, bit)
BitXor(s, bit) == s + bit - 2 * BitAnd(s, bit)

\* ----------------------------------------------------------------- state
VARIABLES
    grid,            \* position -> cell state
    mines_left,
    hints,           \* a dict: a function on the positions that have an entry
    cols,
    lines,
    last_clicked,
    cells_revealed,
    safe_cells,
    call,            \* the last call made on the board (history)
    pre,             \* the board as it was before that call (history)
    ncalls,          \* the number of calls made so far
    cascade,         \* one call of action, statement by statement
    game,            \* the MineSweeperGame object (src/pygame_sweeper.py)
    custom           \* MineSweeperGame.from_custom: its input and what it did

vars == <<grid, mines_left, hints, cols, lines, last_clicked, cells_revealed,
          safe_cells, call, pre, ncalls, cascade, game, custom>>

\* The parts of the state that a specification does not use.
NoCascade == cascade = "none"
NoGame == game = "none"
NoCustom == custom = "none"

\* itertools.product(range(cols), range(lines))
Cells(c, l) == (0..(c - 1)) \X (0..(l - 1))

\* The board object: the fields set by __init__.
Board(g, mines, c, l) ==
    [grid |-> g,
     mines_left |-> mines,
     hints |-> [q \in {} |-> 0],
     cols |-> c,
     lines |-> l,
     last_clicked |-> None,
     cells_revealed |-> 0,
     safe_cells |-> c * l - mines]

\* The current board, as one record.
Self ==
    [grid |-> grid,
     mines_left |-> mines_left,
     hints |-> hints,
     cols |-> cols,
     lines |-> lines,
     last_clicked |-> last_clicked,
     cells_revealed |-> cells_revealed,
     safe_cells |-> safe_cells]

\* MineSweeperBoard.random with the sample `mines` drawn from the cells
random(c, l, mines) ==
    Board([pos \in Cells(c, l) |-> IF pos \in mines THEN _MINE ELSE _SAFE],
          Cardinality(mines), c, l)

\* ------------------------------------------------------------ operations
Offsets ==
    << <<-1, -1>>, <<-1, 0>>, <<-1, 1>>,
       << 0, -1>>,            << 0, 1>>,
       << 1, -1>>, << 1, 0>>, << 1, 1>> >>

\* get_neighbors with the four diagonal offsets left out
get_neighbors_orthogonal(b, position) ==
    LET x == position[1]
        y == position[2]
        cand == << <<x, y - 1>>, <<x - 1, y>>, <<x + 1, y>>, <<x, y + 1>> >>
        InGrid(q) == /\ 0 <= q[1] /\ q[1] < b.cols
                     /\ 0 <= q[2] /\ q[2] < b.lines
    IN SelectSeq(cand, InGrid)

\* get_neighbors wrapping around the edges instead of leaving the grid
get_neighbors_wraps(b, position) ==
    LET x == position[1]
        y == position[2]
    IN [i \in 1..Len(Offsets) |->
           <<(x + Offsets[i][2]) % b.cols, (y + Offsets[i][1]) % b.lines>>]

\* The in-grid neighbours of a position, in the order the generator yields
\* them; each offset is (dy, dx).
get_neighbors(b, position) ==
    LET x == position[1]
        y == position[2]
        cand == [i \in 1..Len(Offsets) |->
                    <<x + Offsets[i][2], y + Offsets[i][1]>>]
        InGrid(q) == /\ 0 <= q[1] /\ q[1] < b.cols
                     /\ 0 <= q[2] /\ q[2] < b.lines
    IN SelectSeq(cand, InGrid)

\* sum(self[pos] & _MINE == _MINE for pos in neighbors)
MinesNearby(b, neighbors) ==
    Cardinality({i \in 1..Len(neighbors) :
                    BitAnd(b.grid[neighbors[i]], _MINE) = _MINE})

\* self.hints[position] = n
SetHint(h, position, n) ==
    [q \in (DOMAIN h) \cup {position} |-> IF q = position THEN n ELSE h[q]]

\* flag without its elif branch: unflagging a mine does not give the mine back
flag_never_increments(b, position, state) ==
    LET toggled == IF BitAnd(state, _FLAGGED) = _FLAGGED
                   THEN BitXor(b.grid[position], _FLAGGED)
                   ELSE BitOr(b.grid[position], _FLAGGED)
        b1 == [b EXCEPT !.grid[position] = toggled]
    IN IF state = _MINE
       THEN [b1 EXCEPT !.mines_left = @ - 1]
       ELSE b1

\* flag counting every flag set or cleared, on a mine or not
flag_counts_every_cell(b, position, state) ==
    LET toggled == IF BitAnd(state, _FLAGGED) = _FLAGGED
                   THEN BitXor(b.grid[position], _FLAGGED)
                   ELSE BitOr(b.grid[position], _FLAGGED)
        b1 == [b EXCEPT !.grid[position] = toggled]
    IN IF BitAnd(state, _FLAGGED) = _FLAGGED
       THEN [b1 EXCEPT !.mines_left = @ + 1]
       ELSE [b1 EXCEPT !.mines_left = @ - 1]

flag(b, position, state) ==
    LET toggled == IF BitAnd(state, _FLAGGED) = _FLAGGED
                   THEN BitXor(b.grid[position], _FLAGGED)
                   ELSE BitOr(b.grid[position], _FLAGGED)
        b1 == [b EXCEPT !.grid[position] = toggled]
    IN IF state = _MINE
       THEN [b1 EXCEPT !.mines_left = @ - 1]
       ELSE IF b1.grid[position] = _MINE
            THEN [b1 EXCEPT !.mines_left = @ + 1]
            ELSE b1

RECURSIVE action(_, _, _)
RECURSIVE reveal(_, _, _)
RECURSIVE ActionEach(_, _, _)

\* for neighbor in neighbors: self.action(neighbor), from the i-th on
ActionEach(b, neighbors, i) ==
    IF i > Len(neighbors)
    THEN b
    ELSE ActionEach(action(b, neighbors[i], FALSE), neighbors, i + 1)

\* reveal without its early return for a mine
reveal_counts_mine(b, position, state) ==
    LET b1 == [b EXCEPT !.last_clicked = state,
                        !.grid[position] = BitOr(@, _OPEN)]
        neighbors == get_neighbors(b1, position)
        mines_nearby == MinesNearby(b1, neighbors)
        b2 == [b1 EXCEPT !.cells_revealed = @ + 1,
                         !.hints = SetHint(@, position, mines_nearby)]
    IN IF mines_nearby = 0
       THEN ActionEach(b2, neighbors, 1)
       ELSE b2

\* reveal without the test of mines_nearby: every opened cell cascades
reveal_always_cascades(b, position, state) ==
    LET b1 == [b EXCEPT !.last_clicked = state,
                        !.grid[position] = BitOr(@, _OPEN)]
    IN IF state = _MINE
       THEN b1
       ELSE LET neighbors == get_neighbors(b1, position)
                mines_nearby == MinesNearby(b1, neighbors)
                b2 == [b1 EXCEPT !.cells_revealed = @ + 1,
                                 !.hints = SetHint(@, position, mines_nearby)]
            IN ActionEach(b2, neighbors, 1)

\* reveal recording last_clicked after the early return instead of before it
reveal_records_late(b, position, state) ==
    LET b1 == [b EXCEPT !.grid[position] = BitOr(@, _OPEN)]
    IN IF state = _MINE
       THEN b1
       ELSE LET neighbors == get_neighbors(b1, position)
                mines_nearby == MinesNearby(b1, neighbors)
                b2 == [b1 EXCEPT !.last_clicked = state,
                                 !.cells_revealed = @ + 1,
                                 !.hints = SetHint(@, position, mines_nearby)]
            IN IF mines_nearby = 0
               THEN ActionEach(b2, neighbors, 1)
               ELSE b2

reveal(b, position, state) ==
    LET b1 == [b EXCEPT !.last_clicked = state,
                        !.grid[position] = BitOr(@, _OPEN)]
    IN IF state = _MINE
       THEN b1
       ELSE LET neighbors == get_neighbors(b1, position)
                mines_nearby == MinesNearby(b1, neighbors)
                b2 == [b1 EXCEPT !.cells_revealed = @ + 1,
                                 !.hints = SetHint(@, position, mines_nearby)]
            IN IF mines_nearby = 0
               THEN ActionEach(b2, neighbors, 1)
               ELSE b2

\* action without its elif branch: a flagged cell is revealed like any other
action_reveals_flagged(b, position, flg) ==
    LET state == b.grid[position]
    IN IF state = _OPEN
       THEN b
       ELSE IF flg
            THEN flag(b, position, state)
            ELSE reveal(b, position, state)

action(b, position, flg) ==
    LET state == b.grid[position]
    IN IF state = _OPEN
       THEN b
       ELSE IF flg
            THEN flag(b, position, state)
            ELSE IF BitAnd(state, _FLAGGED) = _FLAGGED
                 THEN b
                 ELSE reveal(b, position, state)

\* open_mines setting the OPEN bit and keeping the other bits
open_mines_keeps_flag(b) ==
    [b EXCEPT !.grid = [pos \in DOMAIN b.grid |->
                           IF BitAnd(b.grid[pos], _MINE) = _MINE
                           THEN BitOr(b.grid[pos], _OPEN)
                           ELSE b.grid[pos]]]

open_mines(b) ==
    [b EXCEPT !.grid = [pos \in DOMAIN b.grid |->
                           IF BitAnd(b.grid[pos], _MINE) = _MINE
                           THEN _OPEN_MINE
                           ELSE b.grid[pos]]]

\* ------------------------------------------------------- the state machine
\* The variables take the fields of board b.
Becomes(b) ==
    /\ grid' = b.grid
    /\ mines_left' = b.mines_left
    /\ hints' = b.hints
    /\ cols' = b.cols
    /\ lines' = b.lines
    /\ last_clicked' = b.last_clicked
    /\ cells_revealed' = b.cells_revealed
    /\ safe_cells' = b.safe_cells

\* The (cols, lines) of the boards: every shape of at most MaxCells cells.
Shapes == {s \in (1..MaxCells) \X (1..MaxCells) : s[1] * s[2] <= MaxCells}

Init ==
    \E shape \in Shapes :
      \E mines \in SUBSET Cells(shape[1], shape[2]) :
        /\ Cardinality(mines) <= MaxMines
        /\ LET b == random(shape[1], shape[2], mines)
           IN /\ grid = b.grid
              /\ mines_left = b.mines_left
              /\ hints = b.hints
              /\ cols = b.cols
              /\ lines = b.lines
              /\ last_clicked = b.last_clicked
              /\ cells_revealed = b.cells_revealed
              /\ safe_cells = b.safe_cells
              /\ pre = b
        /\ call = [op |-> "init", position |-> <<0, 0>>, flag |-> FALSE]
        /\ ncalls = 0
        /\ NoCascade /\ NoGame /\ NoCustom

\* board.action(position, flag) with any in-grid position
CallAction ==
    /\ ncalls < MaxCalls
    /\ \E position \in DOMAIN grid, flg \in BOOLEAN :
         /\ Becomes(action(Self, position, flg))
         /\ call' = [op |-> "action", position |-> position, flag |-> flg]
    /\ pre' = Self
    /\ ncalls' = ncalls + 1
    /\ UNCHANGED <<cascade, game, custom>>

\* board.open_mines()
CallOpenMines ==
    /\ ncalls < MaxCalls
    /\ Becomes(open_mines(Self))
    /\ call' = [op |-> "open_mines", position |-> <<0, 0>>, flag |-> FALSE]
    /\ pre' = Self
    /\ ncalls' = ncalls + 1
    /\ UNCHANGED <<cascade, game, custom>>

Next == CallAction \/ CallOpenMines

Spec == Init /\ [][Next]_vars

\* Calls of action only (no open_mines): the runs C7 speaks of.
ActionSpec == Init /\ [][CallAction]_vars

\* ------------------------------------------------------ reading the state
Has(s, bit) == BitAnd(s, bit) = bit
Positions == DOMAIN grid
\* the last call was action(position, flag) with the given flag
Called(flg) == call.op = "action" /\ call.flag = flg
\* 8-adjacency, stated on the coordinates
Adjacent(p, q) ==
    /\ p # q
    /\ p[1] - q[1] \in {-1, 0, 1}
    /\ p[2] - q[2] \in {-1, 0, 1}
\* the number of mines around p on board b
MinedNeighbours(b, p) ==
    Cardinality({q \in DOMAIN b.grid : Adjacent(p, q) /\ Has(b.grid[q], _MINE)})
OpenSafe(b) == {p \in DOMAIN b.grid : Has(b.grid[p], _OPEN) /\ ~Has(b.grid[p], _MINE)}
FlaggedMines(b) == {p \in DOMAIN b.grid : Has(b.grid[p], _MINE) /\ Has(b.grid[p], _FLAGGED)}
NumMines(b) == Cardinality({p \in DOMAIN b.grid : Has(b.grid[p], _MINE)})

\* ------------------------------------------------------------------ C1
\* C1: action(position, flag) on a cell whose state has the OPEN bit set
\* changes nothing, whatever the cell's other bits and whatever flag is.
C1_OpenCellIsNoOp ==
    (call.op = "action" /\ Has(pre.grid[call.position], _OPEN)) => Self = pre

\* ------------------------------------------------------------------ C2
\* C2: cells_revealed never exceeds safe_cells, and equals it whenever every
\* non-mine cell is open.
C2_RevealedAtMostSafe ==
    /\ cells_revealed <= safe_cells
    /\ (\A p \in Positions : Has(grid[p], _MINE) \/ Has(grid[p], _OPEN))
          => cells_revealed = safe_cells

\* ------------------------------------------------------------------ C3
\* C3: cells_revealed is the number of cells with OPEN set and MINE clear,
\* and no call makes it smaller.
C3_RevealedCountsOpenSafe ==
    /\ cells_revealed = Cardinality(OpenSafe(Self))
    /\ cells_revealed >= pre.cells_revealed

RECURSIVE Grow(_, _, _)
Grow(b, Z, S) ==
    LET S2 == S \cup {q \in Z : \E r \in S : Adjacent(q, r)}
    IN IF S2 = S THEN S ELSE Grow(b, Z, S2)
\* the 8-connected region of Z that holds p, and the cells around a region
Region(b, Z, p) == Grow(b, Z, {p})
Ring(b, R) == {q \in DOMAIN b.grid : \E r \in R : Adjacent(q, r)}
ZeroCells(b) == {q \in DOMAIN b.grid : MinedNeighbours(b, q) = 0}
Closed(b) == {q \in DOMAIN b.grid : ~Has(b.grid[q], _OPEN) /\ ~Has(b.grid[q], _FLAGGED)}
\* the last call was a non-flag action on a closed, unflagged, non-mine cell
\* with no mine around it
ZeroClick ==
    /\ Called(FALSE)
    /\ pre.grid[call.position] = _SAFE
    /\ MinedNeighbours(pre, call.position) = 0
\* every cell of T ends open and no cell outside T changes state
OpensExactly(T) ==
    /\ \A q \in T : Has(grid[q], _OPEN)
    /\ \A q \in Positions \ T : grid[q] = pre.grid[q]

\* C5 as stated: the click opens the whole region of zero-mined-neighbour
\* cells around the clicked cell plus the cells adjacent to that region, and
\* changes no other cell.
C5_Original ==
    ZeroClick =>
        LET R == Region(pre, ZeroCells(pre), call.position)
        IN OpensExactly(R \cup Ring(pre, R))

\* C5 amended: the click opens the region of closed, unflagged
\* zero-mined-neighbour cells around the clicked cell plus the closed,
\* unflagged cells adjacent to that region, and changes no other cell.
C5_FloodFill ==
    ZeroClick =>
        LET R == Region(pre, ZeroCells(pre) \cap Closed(pre), call.position)
            T == R \cup (Ring(pre, R) \cap Closed(pre))
        IN OpensExactly(T)

\* a cascade that a flagged cell of the zero region has stopped, and that
\* has opened another cell of the region and a cell of the ring
C5_Witness ==
    /\ ZeroClick
    /\ LET R == Region(pre, ZeroCells(pre), call.position)
       IN /\ \E q \in R : grid[q] = _FLAGGED
          /\ \E q \in R \ {call.position} : grid[q] = _OPEN /\ pre.grid[q] = _SAFE
          /\ \E q \in Ring(pre, R) \ R : grid[q] = _OPEN /\ pre.grid[q] = _SAFE

\* ------------------------------------------------------------------ C6
FlaggedClosed(s) == Has(s, _FLAGGED) /\ ~Has(s, _OPEN)
\* C6: a non-flag action on a closed, flagged cell changes nothing, and a
\* cascade that reaches such a cell from a neighbour leaves it closed,
\* flagged and without a hint; for mine and non-mine cells alike.
C6_FlaggedNotRevealed ==
    Called(FALSE) =>
        /\ FlaggedClosed(pre.grid[call.position]) => Self = pre
        /\ \A q \in Positions :
              FlaggedClosed(pre.grid[q]) =>
                 /\ grid[q] = pre.grid[q]
                 /\ (q \in DOMAIN hints) = (q \in DOMAIN pre.hints)

\* a flagged cell has been clicked
C6_Witness ==
    /\ Called(FALSE)
    /\ FlaggedClosed(pre.grid[call.position])
    /\ Has(grid[call.position], _FLAGGED)
    /\ ncalls >= 2

\* ------------------------------------------------------------------ C7
\* C7: mines_left goes down by one exactly when an unflagged mine becomes
\* flagged, up by one exactly when a flagged mine becomes unflagged, and so
\* always is the number of mines minus the number of flagged mine cells.
C7_MinesLeftCountsFlaggedMines ==
    /\ mines_left = NumMines(Self) - Cardinality(FlaggedMines(Self))
    /\ mines_left - pre.mines_left =
          Cardinality(FlaggedMines(pre)) - Cardinality(FlaggedMines(Self))

\* ------------------------------------------------------------------ C8
\* C8: when a flag action has taken effect on a cell, a second flag action on
\* the same cell gives back the board as it was before the first: the cell,
\* mines_left, cells_revealed, hints and last_clicked.
C8_FlagTwiceRestores ==
    (Called(TRUE) /\ Self # pre) => action(Self, call.position, TRUE) = pre

\* a mine has been flagged, which took one off mines_left
C8_Witness ==
    /\ Called(TRUE)
    /\ pre.grid[call.position] = _MINE
    /\ Has(grid[call.position], _FLAGGED)
    /\ mines_left = pre.mines_left - 1

\* ------------------------------------------------------------------ C9
\* C9: the positions with a hints entry are exactly the cells with OPEN set
\* and MINE clear.
C9_HintsOnOpenSafe == DOMAIN hints = OpenSafe(Self)

\* ----------------------------------------------------------------- C10
\* C10: no cell has FLAGGED and OPEN set together; every cell state is one of
\* the six keys of state_to_color.
C10_NoFlaggedOpen ==
    \A p \in Positions :
        /\ ~(Has(grid[p], _FLAGGED) /\ Has(grid[p], _OPEN))
        /\ grid[p] \in {_SAFE, _MINE, _FLAGGED, _FLAGGED + _MINE, _OPEN, _OPEN_MINE}

\* ----------------------------------------------------------------- C11
\* C11: open_mines sets every cell that carries MINE to exactly OPEN_MINE,
\* leaves every other cell, mines_left, cells_revealed, safe_cells, hints and
\* last_clicked as they were, and a second open_mines changes nothing.
C11_OpenMines ==
    call.op = "open_mines" =>
        /\ \A p \in Positions :
              grid[p] = IF Has(pre.grid[p], _MINE) THEN _OPEN_MINE ELSE pre.grid[p]
        /\ mines_left = pre.mines_left
        /\ cells_revealed = pre.cells_revealed
        /\ safe_cells = pre.safe_cells
        /\ hints = pre.hints
        /\ last_clicked = pre.last_clicked
        /\ open_mines(Self) = Self

\* open_mines has opened a flagged mine and a closed one, next to a cell
\* that is no mine
C11_Witness ==
    /\ call.op = "open_mines"
    /\ \E p \in Positions : pre.grid[p] = _MINE + _FLAGGED /\ grid[p] = _OPEN_MINE
    /\ \E p \in Positions : pre.grid[p] = _MINE /\ grid[p] = _OPEN_MINE
    /\ \E p \in Positions : grid[p] = _SAFE

\* ----------------------------------------------------------------- C12
\* C12: mines_left stays within 0..num_mines, whatever cells are flagged and
\* in whatever order flag, reveal and open_mines calls are made.
C12_MinesLeftInRange == 0 <= mines_left /\ mines_left <= NumMines(Self)

\* every mine is flagged, and so is a cell that is no mine
C12_Witness ==
    /\ NumMines(Self) >= 1
    /\ mines_left = 0
    /\ \E p \in Positions : grid[p] = _FLAGGED

\* ----------------------------------------------------------------- C13
\* The 3x3 board whose only mine is at (1,1), and reveals of its other cells.
Board13 == random(3, 3, {<<1, 1>>})

Init13 ==
    /\ grid = Board13.grid
    /\ mines_left = Board13.mines_left
    /\ hints = Board13.hints
    /\ cols = Board13.cols
    /\ lines = Board13.lines
    /\ last_clicked = Board13.last_clicked
    /\ cells_revealed = Board13.cells_revealed
    /\ safe_cells = Board13.safe_cells
    /\ pre = Board13
    /\ call = [op |-> "init", position |-> <<0, 0>>, flag |-> FALSE]
    /\ ncalls = 0
    /\ NoCascade /\ NoGame /\ NoCustom

\* board.action(position) on a cell that is no mine; one call per safe cell
\* is enough to open the board
CallReveal13 ==
    /\ ncalls < safe_cells
    /\ \E position \in {p \in DOMAIN grid : ~Has(grid[p], _MINE)} :
         /\ Becomes(action(Self, position, FALSE))
         /\ call' = [op |-> "action", position |-> position, flag |-> FALSE]
    /\ pre' = Self
    /\ ncalls' = ncalls + 1
    /\ UNCHANGED <<cascade, game, custom>>

Spec13 == Init13 /\ [][CallReveal13]_vars

SafeCells13 == {p \in Positions : ~Has(grid[p], _MINE)}
FirstReveal13 == ncalls = 1 /\ Called(FALSE) /\ call.position = <<0, 0>>

\* C13 as stated: after the single action on (0,0), (0,0) has the hint 1 and
\* all 8 non-mine cells are open with hint 1, the mine closed.
C13_Original ==
    FirstReveal13 =>
        /\ hints[<<0, 0>>] = 1
        /\ \A p \in SafeCells13 : grid[p] = _OPEN /\ p \in DOMAIN hints /\ hints[p] = 1
        /\ grid[<<1, 1>>] = _MINE

\* C13 amended: the single action on (0,0) gives (0,0) the hint 1 and opens
\* no other cell; no action cascades on this board, so the 8 non-mine cells
\* are all open, each with hint 1 and the mine closed, only after 8 actions.
C13_NoCascade ==
    /\ FirstReveal13 =>
          /\ grid = [Board13.grid EXCEPT ![<<0, 0>>] = _OPEN]
          /\ DOMAIN hints = {<<0, 0>>}
          /\ hints[<<0, 0>>] = 1
    /\ \A q \in Positions \ {call.position} : grid[q] = pre.grid[q]
    /\ (\A p \in SafeCells13 : grid[p] = _OPEN) =>
          /\ ncalls >= 8
          /\ \A p \in SafeCells13 : p \in DOMAIN hints /\ hints[p] = 1
          /\ grid[<<1, 1>>] = _MINE

\* (0,0) has been revealed from the initial state
C13_Witness ==
    /\ FirstReveal13
    /\ grid[<<0, 0>>] = _OPEN
    /\ pre = Board13

\* ----------------------------------------------------------------- C15
\* Boards of every shape with any number of mines, and the reveals that write
\* the hints.
Init15 ==
    \E shape \in Shapes :
      \E mines \in SUBSET Cells(shape[1], shape[2]) :
        /\ LET b == random(shape[1], shape[2], mines)
           IN /\ grid = b.grid
              /\ mines_left = b.mines_left
              /\ hints = b.hints
              /\ cols = b.cols
              /\ lines = b.lines
              /\ last_clicked = b.last_clicked
              /\ cells_revealed = b.cells_revealed
              /\ safe_cells = b.safe_cells
              /\ pre = b
        /\ call = [op |-> "init", position |-> <<0, 0>>, flag |-> FALSE]
        /\ ncalls = 0
        /\ NoCascade /\ NoGame /\ NoCustom

\* board.action(position) with any in-grid position
CallReveal15 ==
    /\ ncalls < MaxCalls
    /\ \E position \in DOMAIN grid :
         /\ Becomes(action(Self, position, FALSE))
         /\ call' = [op |-> "action", position |-> position, flag |-> FALSE]
    /\ pre' = Self
    /\ ncalls' = ncalls + 1
    /\ UNCHANGED <<cascade, game, custom>>

HintSpec == Init15 /\ [][CallReveal15]_vars

Corner(p) == p[1] \in {0, cols - 1} /\ p[2] \in {0, lines - 1}
Edge(p) == p[1] \in {0, cols - 1} \/ p[2] \in {0, lines - 1}

\* C15: every hints entry is the number of the position's in-grid Moore
\* neighbours (no wraparound) that carry MINE; it is in 0..8, at most 3 in a
\* corner and at most 5 on an edge, and an entry once written keeps its value.
C15_HintCountsMinedNeighbours ==
    \A p \in DOMAIN hints :
        /\ hints[p] = MinedNeighbours(Self, p)
        /\ hints[p] \in 0..8
        /\ Corner(p) => hints[p] <= 3
        /\ Edge(p) => hints[p] <= 5
        /\ p \in DOMAIN pre.hints => hints[p] = pre.hints[p]

\* a cell on an edge, not in a corner, has been revealed with mines all around
C15_Witness ==
    /\ Called(FALSE)
    /\ ~Corner(call.position)
    /\ call.position \in DOMAIN hints
    /\ hints[call.position] = 5
    /\ pre.grid[call.position] = _SAFE

\* ----------------------------------------------------------------- C16
\* the mines that the last call has opened
MinesOpened ==
    {p \in Positions : Has(grid[p], _MINE) /\ Has(grid[p], _OPEN)
                          /\ ~Has(pre.grid[p], _OPEN)}

\* C16 as stated: a non-flag action on a non-mine cell opens no mine and
\* returns with last_clicked # MINE, one that opens a closed mine returns
\* with last_clicked = MINE, and after any action last_clicked = MINE exactly
\* when this action has opened a mine.
C16_Original ==
    call.op = "action" =>
        /\ (Called(FALSE) /\ ~Has(pre.grid[call.position], _MINE)) =>
              MinesOpened = {} /\ last_clicked # _MINE
        /\ (Called(FALSE) /\ pre.grid[call.position] = _MINE) => last_clicked = _MINE
        /\ (last_clicked = _MINE) = (MinesOpened # {})

\* C16 amended: a non-flag action on a non-mine cell opens no mine, and when
\* the cell was closed and unflagged it returns with last_clicked # MINE; a
\* non-flag action that opens a closed mine returns with last_clicked = MINE;
\* a flag action and a click on a flagged cell or on an opened non-mine cell
\* leave last_clicked as it was. So after an action last_clicked = MINE tells
\* that this action has opened a mine only when last_clicked was not MINE
\* before the call.
C16_LastClicked ==
    call.op = "action" =>
        /\ (Called(FALSE) /\ ~Has(pre.grid[call.position], _MINE)) => MinesOpened = {}
        /\ (Called(FALSE) /\ pre.grid[call.position] = _SAFE) => last_clicked # _MINE
        /\ (Called(FALSE) /\ pre.grid[call.position] = _MINE) =>
              last_clicked = _MINE /\ MinesOpened = {call.position}
        /\ (call.flag \/ Has(pre.grid[call.position], _FLAGGED)
                      \/ pre.grid[call.position] = _OPEN) =>
              last_clicked = pre.last_clicked
        /\ pre.last_clicked # _MINE => (last_clicked = _MINE) = (MinesOpened # {})

\* a mine has been opened, and then a cascade has run from a safe cell
C16_Witness ==
    /\ Called(FALSE)
    /\ pre.last_clicked = _MINE
    /\ pre.grid[call.position] = _SAFE
    /\ last_clicked = _SAFE
    /\ \E q \in Positions \ {call.position} : grid[q] = _OPEN /\ pre.grid[q] = _SAFE

\* ----------------------------------------------------------------- C14
\* One call of action taken statement by statement: the activations of reveal
\* that have not returned are frames of a stack, each with the list
\* `neighbors` of its for loop and the index i of the neighbor that comes next.
MaxCascadeCalls == 2

Frame(position, neighbors) ==
    [position |-> position, neighbors |-> neighbors, i |-> 1]

\* the state of a call that has not started
Idle(b) == [stack |-> <<>>, nreveals |-> [p \in DOMAIN b.grid |-> 0], steps |-> 0]

\* reveal down to its for loop: the board it leaves and the neighbors the
\* loop will go through (none after an early return or with a mine nearby)
RevealHead(b, position, state) ==
    LET b1 == [b EXCEPT !.last_clicked = state,
                        !.grid[position] = BitOr(@, _OPEN)]
    IN IF state = _MINE
       THEN [b |-> b1, neighbors |-> <<>>]
       ELSE LET neighbors == get_neighbors(b1, position)
                mines_nearby == MinesNearby(b1, neighbors)
                b2 == [b1 EXCEPT !.cells_revealed = @ + 1,
                                 !.hints = SetHint(@, position, mines_nearby)]
            IN [b |-> b2,
                neighbors |-> IF mines_nearby = 0 THEN neighbors ELSE <<>>]

\* Enter without the return for an open cell: an open cell is revealed again
Enter_reopens(b, c, position, flg) ==
    LET state == b.grid[position]
    IN IF flg
       THEN [b |-> flag(b, position, state), c |-> c]
       ELSE IF BitAnd(state, _FLAGGED) = _FLAGGED
            THEN [b |-> b, c |-> c]
            ELSE LET h == RevealHead(b, position, state)
                 IN [b |-> h.b,
                     c |-> [c EXCEPT
                              !.stack = Append(@, Frame(position, h.neighbors)),
                              !.nreveals[position] = @ + 1]]

\* action down to the for loop of the reveal it calls: the board, and the
\* stack with the frame of that reveal
Enter(b, c, position, flg) ==
    LET state == b.grid[position]
    IN IF state = _OPEN
       THEN [b |-> b, c |-> c]
       ELSE IF flg
            THEN [b |-> flag(b, position, state), c |-> c]
            ELSE IF BitAnd(state, _FLAGGED) = _FLAGGED
                 THEN [b |-> b, c |-> c]
                 ELSE LET h == RevealHead(b, position, state)
                      IN [b |-> h.b,
                          c |-> [c EXCEPT
                                   !.stack = Append(@, Frame(position, h.neighbors)),
                                   !.nreveals[position] = @ + 1]]

InitCascade ==
    \E shape \in Shapes :
      \E mines \in SUBSET Cells(shape[1], shape[2]) :
        /\ Cardinality(mines) <= MaxMines
        /\ LET b == random(shape[1], shape[2], mines)
           IN /\ grid = b.grid
              /\ mines_left = b.mines_left
              /\ hints = b.hints
              /\ cols = b.cols
              /\ lines = b.lines
              /\ last_clicked = b.last_clicked
              /\ cells_revealed = b.cells_revealed
              /\ safe_cells = b.safe_cells
              /\ pre = b
              /\ cascade = Idle(b)
        /\ call = [op |-> "init", position |-> <<0, 0>>, flag |-> FALSE]
        /\ ncalls = 0
        /\ NoGame /\ NoCustom

\* board.action(position, flag) is called and runs to its first nested call
CascadeCall ==
    /\ cascade.stack = <<>>
    /\ ncalls < MaxCascadeCalls
    /\ \E position \in DOMAIN grid, flg \in BOOLEAN :
         LET e == Enter(Self, [Idle(Self) EXCEPT !.steps = 1], position, flg)
         IN /\ Becomes(e.b)
            /\ cascade' = e.c
            /\ call' = [op |-> "action", position |-> position, flag |-> flg]
    /\ pre' = Self
    /\ ncalls' = ncalls + 1
    /\ UNCHANGED <<game, custom>>

\* the for loop of the innermost reveal calls self.action(neighbor)
CascadeStep ==
    /\ cascade.stack # <<>>
    /\ LET d == Len(cascade.stack)
           top == cascade.stack[d]
       IN /\ top.i <= Len(top.neighbors)
          /\ LET c == [cascade EXCEPT !.stack[d].i = @ + 1, !.steps = @ + 1]
                 e == Enter(Self, c, top.neighbors[top.i], FALSE)
             IN Becomes(e.b) /\ cascade' = e.c
    /\ UNCHANGED <<call, pre, ncalls, game, custom>>

\* the for loop of the innermost reveal is over and the reveal returns
CascadeReturn ==
    /\ cascade.stack # <<>>
    /\ LET d == Len(cascade.stack)
           top == cascade.stack[d]
       IN /\ top.i > Len(top.neighbors)
          /\ cascade' = [cascade EXCEPT !.stack = SubSeq(@, 1, d - 1),
                                        !.steps = @ + 1]
    /\ UNCHANGED <<grid, mines_left, hints, cols, lines, last_clicked,
                   cells_revealed, safe_cells, call, pre, ncalls, game, custom>>

\* board.open_mines(), between two calls of action
CascadeOpenMines ==
    /\ cascade.stack = <<>>
    /\ ncalls < MaxCascadeCalls
    /\ Becomes(open_mines(Self))
    /\ cascade' = Idle(Self)
    /\ call' = [op |-> "open_mines", position |-> <<0, 0>>, flag |-> FALSE]
    /\ pre' = Self
    /\ ncalls' = ncalls + 1
    /\ UNCHANGED <<game, custom>>

CascadeNext == CascadeCall \/ CascadeStep \/ CascadeReturn \/ CascadeOpenMines

CascadeSpec == InitCascade /\ [][CascadeNext]_vars

\* C14: every action call terminates: within one call each cell is revealed
\* at most once, the depth of nested reveal calls never exceeds cols*lines,
\* the call takes a bounded number of steps, and it returns with the board
\* that action computes.
C14_CascadeTerminates ==
    /\ \A p \in Positions : cascade.nreveals[p] <= 1
    /\ Len(cascade.stack) <= cols * lines
    /\ cascade.steps <= 1 + (Len(Offsets) + 1) * cols * lines
    /\ (cascade.stack = <<>> /\ call.op = "action") =>
          Self = action(pre, call.position, call.flag)

\* nested reveal calls as deep as the board has cells, on a board of 4 cells
\* or more
C14_Witness ==
    /\ cols * lines >= 4
    /\ Len(cascade.stack) = cols * lines
    /\ \A p \in Positions : cascade.nreveals[p] = 1

\* ------------------------------------------------- the game (C17 to C19)
\* MineSweeperGame (src/pygame_sweeper.py): the board variables hold
\* game.board; `game` holds the fields of the game object, then what the
\* claims need to remember:
\*   exited       "no" while the process runs, else what ended it
\*   mine_opened  a click has opened a mine since the last update
\*   was          playing, won and mine_opened before the last event
\* `call` is the last event, `pre` the board before it, and `ncalls` the
\* number of calls of action on the current board.
MaxGameCells == 3
MaxClicks == 2

_LCLICK == 1
_RCLICK == 3
\* e.button: left, middle, right
Buttons == {_LCLICK, 2, _RCLICK}
\* e.key: pg.K_r or another key
Keys == {"K_r", "K_other"}

\* the keys of the dict state_to_color
state_to_color == {_SAFE, _MINE, _FLAGGED, BitOr(_FLAGGED, _MINE), _OPEN, _OPEN_MINE}

\* require_state calling the method whatever the attribute is
require_state_unchecked(value, bool_) == TRUE

\* the test of the decorator: the method runs only if the attribute has the
\* value bool_
require_state(value, bool_) == value = bool_

\* random.sample(cells, mines)
Samples(c, l, n) == {m \in SUBSET Cells(c, l) : Cardinality(m) = n}

\* MineSweeperGame.reset, with the sample that random draws
reset(g, b, sample) ==
    IF require_state(g.playing, FALSE)
    THEN [g |-> [g EXCEPT !.playing = TRUE, !.won = FALSE],
          b |-> random(g.cols, g.lines, sample)]
    ELSE [g |-> g, b |-> b]

\* MineSweeperGame.handle_mouse_input with pos = e.pos // block_size
handle_mouse_input(g, b, pos, button) ==
    IF require_state(g.playing, TRUE)
    THEN IF button = _LCLICK
         THEN action(b, pos, FALSE)
         ELSE IF button = _RCLICK
              THEN action(b, pos, TRUE)
              ELSE b
    ELSE b

\* MineSweeperGame.handle_key_input
handle_key_input(g, b, key, sample) ==
    IF key = "K_r" THEN reset(g, b, sample) ELSE [g |-> g, b |-> b]

\* MineSweeperGame.update
update(g, b) ==
    LET w == b.mines_left <= 0 \/ b.cells_revealed = b.safe_cells
        lost == b.last_clicked = _MINE
    IN IF w \/ lost
       THEN [g |-> [g EXCEPT !.won = w, !.playing = FALSE],
             b |-> open_mines([b EXCEPT !.last_clicked = None])]
       ELSE [g |-> [g EXCEPT !.won = w], b |-> b]

\* MineSweeperGame.draw raises KeyError: state_to_color[state] has no such key
DrawRaises(b) == \E pos \in DOMAIN b.grid : b.grid[pos] \notin state_to_color

GameShapes == {s \in (1..MaxGameCells) \X (1..MaxGameCells) : s[1] * s[2] <= MaxGameCells}

Was(g) == [playing |-> g.playing, won |-> g.won, mine_opened |-> g.mine_opened]

\* MineSweeperGame(cols, lines, mines): playing = False, then reset()
InitGame ==
    \E shape \in GameShapes :
      \E n \in 0..MaxMines :
        /\ n <= shape[1] * shape[2]
        /\ \E sample \in Samples(shape[1], shape[2], n) :
             LET g0 == [cols |-> shape[1], lines |-> shape[2], mines |-> n,
                        playing |-> FALSE, won |-> FALSE, exited |-> "no",
                        mine_opened |-> FALSE,
                        was |-> [playing |-> FALSE, won |-> FALSE,
                                 mine_opened |-> FALSE]]
                 r == reset(g0, Board(<<>>, n, shape[1], shape[2]), sample)
             IN /\ game = r.g
                /\ grid = r.b.grid
                /\ mines_left = r.b.mines_left
                /\ hints = r.b.hints
                /\ cols = r.b.cols
                /\ lines = r.b.lines
                /\ last_clicked = r.b.last_clicked
                /\ cells_revealed = r.b.cells_revealed
                /\ safe_cells = r.b.safe_cells
                /\ pre = r.b
        /\ call = [op |-> "init", position |-> <<0, 0>>, flag |-> FALSE]
        /\ ncalls = 0
        /\ NoCascade /\ NoCustom

\* a pg.MOUSEBUTTONDOWN event in the loop over pg.event.get()
MouseButtonDown ==
    /\ game.exited = "no"
    /\ game.playing => ncalls < MaxClicks
    /\ \E pos \in DOMAIN grid, button \in Buttons :
         LET b == handle_mouse_input(game, Self, pos, button)
             opened == \E p \in DOMAIN grid :
                          /\ Has(b.grid[p], _MINE) /\ Has(b.grid[p], _OPEN)
                          /\ ~Has(grid[p], _OPEN)
         IN /\ Becomes(b)
            /\ game' = [game EXCEPT !.mine_opened = @ \/ opened,
                                    !.was = Was(game)]
            /\ call' = [op |-> IF button \notin {_LCLICK, _RCLICK}
                               THEN "mouse_other"
                               ELSE IF game.playing THEN "action" ELSE "mouse",
                        position |-> pos,
                        flag |-> button = _RCLICK]
            /\ ncalls' = IF game.playing /\ button \in {_LCLICK, _RCLICK}
                         THEN ncalls + 1 ELSE ncalls
    /\ pre' = Self
    /\ UNCHANGED <<cascade, custom>>

\* a pg.KEYDOWN event; random.sample draws only when reset runs
KeyDown ==
    /\ game.exited = "no"
    /\ \E key \in Keys :
         \E sample \in IF key = "K_r" /\ ~game.playing
                       THEN Samples(game.cols, game.lines, game.mines)
                       ELSE {{}} :
           LET r == handle_key_input(game, Self, key, sample)
           IN /\ Becomes(r.b)
              /\ game' = [r.g EXCEPT !.was = Was(game),
                                     !.mine_opened = @ /\ r.g.playing = game.playing]
              /\ call' = [op |-> IF key = "K_r" THEN "key_r" ELSE "key",
                          position |-> <<0, 0>>, flag |-> FALSE]
              /\ ncalls' = IF r.g.playing # game.playing THEN 0 ELSE ncalls
    /\ pre' = Self
    /\ UNCHANGED <<cascade, custom>>

\* a pg.QUIT event: sys.exit
Quit ==
    /\ game.exited = "no"
    /\ game' = [game EXCEPT !.exited = "quit", !.was = Was(game)]
    /\ call' = [op |-> "quit", position |-> <<0, 0>>, flag |-> FALSE]
    /\ pre' = Self
    /\ UNCHANGED <<grid, mines_left, hints, cols, lines, last_clicked,
                   cells_revealed, safe_cells, ncalls, cascade, custom>>

\* the end of an iteration of game_loop: self.update(), then self.draw()
UpdateDraw ==
    /\ game.exited = "no"
    /\ LET u == update(game, Self)
       IN /\ Becomes(u.b)
          /\ game' = [u.g EXCEPT !.exited = IF DrawRaises(u.b) THEN "KeyError" ELSE "no",
                                 !.mine_opened = FALSE,
                                 !.was = Was(game)]
    /\ call' = [op |-> "update", position |-> <<0, 0>>, flag |-> FALSE]
    /\ pre' = Self
    /\ UNCHANGED <<ncalls, cascade, custom>>

game_loop == MouseButtonDown \/ KeyDown \/ Quit \/ UpdateDraw

GameSpec == InitGame /\ [][game_loop]_vars

\* ----------------------------------------------------------------- C17
\* C17: whenever a click has opened a mine, the next update ends the round
\* as a loss: playing becomes False, won is False and open_mines is applied,
\* whatever mouse events were handled between the two updates.
C17_MineEndsRound ==
    (call.op = "update" /\ game.was.mine_opened) =>
        /\ ~game.playing
        /\ ~game.won
        /\ \A p \in Positions : Has(pre.grid[p], _MINE) => grid[p] = _OPEN_MINE

\* ----------------------------------------------------------------- C18
AllSafeOpen(b) == \A p \in DOMAIN b.grid : Has(b.grid[p], _MINE) \/ Has(b.grid[p], _OPEN)
AllMinesFlagged(b) == \A p \in DOMAIN b.grid : Has(b.grid[p], _MINE) => Has(b.grid[p], _FLAGGED)

\* C18: an update of a round in progress sets won only when every non-mine
\* cell is open or every mine is flagged, and it ends the round whenever one
\* of the two holds.
C18_WinOnlyWhenWon ==
    (call.op = "update" /\ game.was.playing) =>
        /\ game.won => (AllSafeOpen(pre) \/ AllMinesFlagged(pre))
        /\ (AllSafeOpen(pre) \/ AllMinesFlagged(pre)) => ~game.playing

\* ----------------------------------------------------------------- C19
MinesOf(b) == {p \in DOMAIN b.grid : Has(b.grid[p], _MINE)}
\* the board is another object than before the last event: its mines have
\* moved, or a cell that was open or flagged is closed and unflagged again
Replaced ==
    \/ MinesOf(Self) # MinesOf(pre)
    \/ \E p \in Positions : Has(pre.grid[p], _OPEN) /\ ~Has(grid[p], _OPEN)
    \/ cells_revealed < pre.cells_revealed

\* C19: a mouse click after the round has ended changes nothing; the board
\* is replaced only by a reset made while playing is False, and that reset
\* gives a fresh board and starts a round; R pressed during a round leaves
\* the board, playing and won as they were.
C19_RoundOver ==
    /\ (call.op \in {"mouse", "mouse_other", "action"} /\ ~game.was.playing) =>
          /\ Self = pre
          /\ game.playing = game.was.playing
          /\ game.won = game.was.won
    /\ Replaced => (call.op = "key_r" /\ ~game.was.playing)
    /\ (call.op = "key_r" /\ ~game.was.playing) =>
          /\ Self = random(game.cols, game.lines, MinesOf(Self))
          /\ mines_left = game.mines
          /\ game.playing /\ ~game.won
    /\ (call.op = "key_r" /\ game.was.playing) =>
          /\ Self = pre
          /\ game.playing /\ game.won = game.was.won

\* a left click on a closed cell that is no mine, after the round was lost
C19_Witness ==
    /\ call.op = "mouse"
    /\ ~call.flag
    /\ ~game.was.playing
    /\ grid[call.position] = _SAFE
    /\ \E p \in Positions : grid[p] = _OPEN_MINE

\* ----------------------------------------------------------------- C20
\* MineSweeperGame.from_custom. What the user types at a prompt is a record:
\* `int` tells whether int() accepts the text, `value` is the integer it
\* returns. `custom` holds the three inputs and what from_custom did with
\* them: "game" (cls(*user_values) returned a game), "invalid" (the alert of
\* the except branch) or "ValueError" (an exception that leaves from_custom).
MaxSlack == 2

maximum_values == <<30, 24, 667>>

\* the texts tried at prompt i: the integers around the maximum, and a text
\* that is no integer
Typed(i) ==
    {[int |-> TRUE, value |-> v] :
        v \in (maximum_values[i] - MaxSlack)..(maximum_values[i] + MaxSlack)}
    \cup {[int |-> FALSE, value |-> 0]}

\* any(maxv < maxv - uv < 0 for maxv, uv in zip(maximum_values, user_values))
AnyAboveMaximum(user_values) ==
    \E i \in 1..Len(maximum_values) :
        /\ maximum_values[i] < maximum_values[i] - user_values[i]
        /\ maximum_values[i] - user_values[i] < 0

\* cls(cols, lines, mines): reset calls MineSweeperBoard.random, whose
\* random.sample raises ValueError for a sample larger than the population
\* or negative
NewGame(user_values) ==
    LET c == user_values[1]
        l == user_values[2]
        n == user_values[3]
    IN IF n < 0 \/ n > c * l THEN "ValueError" ELSE "game"

from_custom(inputs) ==
    IF \E i \in 1..Len(inputs) : ~inputs[i].int
    THEN "invalid"
    ELSE LET user_values == [i \in 1..Len(inputs) |-> inputs[i].value]
         IN IF AnyAboveMaximum(user_values)
            THEN "invalid"
            ELSE NewGame(user_values)

\* no board exists before from_custom returns a game
InitCustom ==
    /\ \E w \in Typed(1), h \in Typed(2), m \in Typed(3) :
         custom = [inputs |-> <<w, h, m>>, result |-> "none"]
    /\ grid = <<>>
    /\ mines_left = 0
    /\ hints = <<>>
    /\ cols = 0
    /\ lines = 0
    /\ last_clicked = None
    /\ cells_revealed = 0
    /\ safe_cells = 0
    /\ pre = Board(<<>>, 0, 0, 0)
    /\ call = [op |-> "init", position |-> <<0, 0>>, flag |-> FALSE]
    /\ ncalls = 0
    /\ NoCascade /\ NoGame

CallFromCustom ==
    /\ custom.result = "none"
    /\ custom' = [custom EXCEPT !.result = from_custom(custom.inputs)]
    /\ UNCHANGED <<grid, mines_left, hints, cols, lines, last_clicked,
                   cells_revealed, safe_cells, call, pre, ncalls, cascade, game>>

CustomSpec == InitCustom /\ [][CallFromCustom]_vars

\* C20: from_custom creates a game only when the width is at most 30, the
\* height at most 24 and the mine count at most 667, and for any entered
\* value above its maximum it reports invalid input and creates no game.
C20_MaximaEnforced ==
    custom.result # "none" =>
        LET Above(i) == custom.inputs[i].int
                           /\ custom.inputs[i].value > maximum_values[i]
        IN /\ custom.result = "game" =>
                 \A i \in 1..3 : custom.inputs[i].int /\ ~Above(i)
           /\ (\E i \in 1..3 : Above(i)) => custom.result = "invalid"

====
